---- MODULE Spec2Model ----
(***************************************************************************)
(* Black-Scholes option calculator (black_scholes_model.ipynb).            *)
(*                                                                         *)
(* Python floats are modelled in fixed point.  A dimensionless quantity,   *)
(* a price input, a time, a rate or a volatility x is the integer x * Q    *)
(* (one unit is 0.001, the step of the implied-volatility scan).  A value  *)
(* produced by a pricing or Greek function is carried at scale Q * Q (one  *)
(* unit is 1e-6), except delta and gamma, which are at scale Q.            *)
(* A function result is a record: kind "num" with its value v, or the      *)
(* name of the exception the call raises.                                  *)
(***************************************************************************)
EXTENDS Integers, Sequences, FiniteSets

\* One fixed-point unit is 1/Q = 0.001, the scan's resolution.
Q == 1000

\* ---------------------------------------------------------------- bounds
\* Spot prices S range over -MaxSpot .. MaxSpot currency units.
MaxSpot == 1
\* Times to maturity T range over -1 .. MaxHalfYears half-years.
MaxHalfYears == 1
\* Observed option prices range over 0 .. MaxObserved currency units.
MaxObserved == 2

\* The user's answers to a prompt are the strings of at most MaxLen characters.
MaxLen == 3

SVals == {s * Q : s \in (0 - MaxSpot)..MaxSpot}
KVals == {Q, 2 * Q}
TVals == {h * (Q \div 2) : h \in (0 - 1)..MaxHalfYears}
RVals == {Q \div 20}
\* volatilities handed to the pricing functions (negative, zero, on the grid)
SigmaVals == {0 - 200, 0, 1, 300, 700, 999}
\* observed prices handed to implied_volatility, at scale Q * Q
PriceVals == {p * Q * Q : p \in 0..MaxObserved}

\* ------------------------------------------------------- function results
Num(x) == [kind |-> "num", v |-> x]
Raise(e) == [kind |-> e, v |-> 0]
IsNum(x) == x.kind = "num"
\* a raised exception ends the evaluation of the enclosing expression
Bind2(a, b, x) == IF ~IsNum(a) THEN a ELSE IF ~IsNum(b) THEN b ELSE x

\* ------------------------------------------------ fixed-point arithmetic
Abs(x) == IF x < 0 THEN 0 - x ELSE x

\* a * b for two scale-Q operands, at scale Q
FMul(a, b) == (a * b) \div Q

\* a / b for two scale-Q operands with b # 0, at scale Q
FDiv(a, b) ==
    IF (a >= 0) = (b > 0)
    THEN (Abs(a) * Q) \div Abs(b)
    ELSE 0 - ((Abs(a) * Q) \div Abs(b))

\* digit-by-digit long division: quotient q, remainder rem < den, k more digits
RECURSIVE Shift(_, _, _, _)
Shift(q, rem, den, k) ==
    IF k = 0 THEN q
    ELSE Shift(q * 10 + ((rem * 10) \div den), (rem * 10) % den, den, k - 1)

\* num / den at scale Q, for num at scale Q and den # 0 at scale Q * Q
Quot(num, den) ==
    LET n == IF den < 0 THEN 0 - num ELSE num
        d == Abs(den)
    IN  Shift(n \div d, n % d, d, 6)

RECURSIVE Isqrt(_)
Isqrt(n) ==
    IF n < 2 THEN n
    ELSE LET s == 2 * Isqrt(n \div 4)
         IN  IF (s + 1) * (s + 1) <= n THEN s + 1 ELSE s

\* math.sqrt on x >= 0
sqrt(x) == Isqrt(x * Q)

\* ln 2 at scale Q
Ln2 == 693

\* math.log on [1, 2): 2 * atanh((x - 1) / (x + 1)) by its series
LogUnit(x) ==
    LET z  == ((x - Q) * Q) \div (x + Q)
        z2 == FMul(z, z)
        t3 == FMul(z, z2)
        t5 == FMul(t3, z2)
        t7 == FMul(t5, z2)
    IN  2 * (z + (t3 \div 3) + (t5 \div 5) + (t7 \div 7))

\* math.log on x > 0, reduced to [1, 2) by powers of two
RECURSIVE log(_)
log(x) ==
    IF x >= 2 * Q THEN log(x \div 2) + Ln2
    ELSE IF x < Q THEN log(2 * x) - Ln2
    ELSE LogUnit(x)

\* math.exp: halved into [-1/2, 1/2], then the Taylor polynomial
RECURSIVE exp(_)
exp(x) ==
    IF x > Q \div 2 \/ x < 0 - (Q \div 2)
    THEN LET h == exp(x \div 2) IN FMul(h, h)
    ELSE LET x2 == FMul(x, x)
             x3 == FMul(x2, x)
             x4 == FMul(x3, x)
         IN  Q + x + (x2 \div 2) + (x3 \div 6) + (x4 \div 24)

\* the standard normal CDF and PDF at 0.0, 0.1, ... 4.0, at scale Q
CdfTable ==
    << 500, 540, 579, 618, 655, 691, 726, 758, 788, 816,
       841, 864, 885, 903, 919, 933, 945, 955, 964, 971,
       977, 982, 986, 989, 992, 994, 995, 997, 997, 998,
       999, 999, 999, 1000, 1000, 1000, 1000, 1000, 1000, 1000, 1000 >>
PdfTable ==
    << 399, 397, 391, 381, 368, 352, 333, 312, 290, 266,
       242, 218, 194, 171, 150, 130, 111, 94, 79, 66,
       54, 44, 35, 28, 22, 18, 14, 10, 8, 6,
       4, 3, 2, 2, 1, 1, 1, 0, 0, 0, 0 >>

\* linear interpolation in a table for x >= 0; sat beyond its end
Interp(tab, x, sat) ==
    LET i == x \div (Q \div 10)
    IN  IF i + 2 > Len(tab) THEN sat
        ELSE tab[i + 1] + (((tab[i + 2] - tab[i + 1]) * (x % (Q \div 10))) \div (Q \div 10))

\* scipy.stats.norm.cdf
norm_cdf(x) == IF x >= 0 THEN Interp(CdfTable, x, Q) ELSE Q - Interp(CdfTable, 0 - x, Q)
\* scipy.stats.norm.pdf
norm_pdf(x) == Interp(PdfTable, Abs(x), 0)

\* --------------------------------------------------------- d1 and d2
\* def d1(S,T,K,r,sigma): the second parameter is the time, the third the
\* strike.  Python evaluates S/K, log, the product with T, sqrt(T) and the
\* final division in this order; the first failure is the one raised.
d1(S, T, K, r, sigma) ==
    IF K = 0 THEN Raise("ZeroDivisionError")
    ELSE IF FDiv(S, K) <= 0 THEN Raise("ValueError")
    ELSE IF T < 0 THEN Raise("ValueError")
    ELSE IF sigma * sqrt(T) = 0 THEN Raise("ZeroDivisionError")
    ELSE Num(Quot(log(FDiv(S, K)) + FMul(r + (FMul(sigma, sigma) \div 2), T),
                  sigma * sqrt(T)))

d2(S, T, K, r, sigma) ==
    IF K = 0 THEN Raise("ZeroDivisionError")
    ELSE IF FDiv(S, K) <= 0 THEN Raise("ValueError")
    ELSE IF T < 0 THEN Raise("ValueError")
    ELSE IF sigma * sqrt(T) = 0 THEN Raise("ZeroDivisionError")
    ELSE Num(Quot(log(FDiv(S, K)) + FMul(r - (FMul(sigma, sigma) \div 2), T),
                  sigma * sqrt(T)))

\* K*exp(-r*T), at scale Q
Discounted(K, T, r) == FMul(K, exp(0 - FMul(r, T)))

\* ------------------------------------------------------------- prices
\* Every caller passes (S,K,T,r,sigma) positionally to d1 and d2.
call_price(S, K, T, r, sigma) ==
    LET a == d1(S, K, T, r, sigma)
        b == d2(S, K, T, r, sigma)
    IN  Bind2(a, b, Num(S * norm_cdf(a.v) - Discounted(K, T, r) * norm_cdf(b.v)))

\* put_price with d1 where the discounted strike needs d2
put_price_d1(S, K, T, r, sigma) ==
    LET a == d1(S, K, T, r, sigma)
    IN  IF ~IsNum(a) THEN a
        ELSE Num(Discounted(K, T, r) * norm_cdf(0 - a.v) - S * norm_cdf(0 - a.v))

put_price(S, K, T, r, sigma) ==
    LET a == d1(S, K, T, r, sigma)
        b == d2(S, K, T, r, sigma)
    IN  Bind2(b, a, Num(Discounted(K, T, r) * norm_cdf(0 - b.v) - S * norm_cdf(0 - a.v)))

\* ------------------------------------------------------------- Greeks
\* floor(a * b / c) without forming a * b, for c > 0
MulDiv(a, b, c) == ((a \div c) * b) + (((a % c) * b) \div c)

\* a numpy float divided by zero is inf or nan, not an exception
NonFinite == [kind |-> "nonfinite", v |-> 0]

call_delta(S, K, T, r, sigma) ==
    LET a == d1(S, K, T, r, sigma)
    IN  IF ~IsNum(a) THEN a ELSE Num(norm_cdf(a.v))

call_gamma(S, K, T, r, sigma) ==
    LET a == d1(S, K, T, r, sigma)
        den == MulDiv(S, sigma * sqrt(T), Q)
    IN  IF ~IsNum(a) THEN a
        ELSE IF T < 0 THEN Raise("ValueError")
        ELSE IF den = 0 THEN NonFinite
        ELSE Num(Quot(norm_pdf(a.v), den))

call_vega(S, K, T, r, sigma) ==
    LET a == d1(S, K, T, r, sigma)
    IN  IF ~IsNum(a) THEN a
        ELSE IF T < 0 THEN Raise("ValueError")
        ELSE Num(FMul(S * norm_pdf(a.v), sqrt(T)) \div 100)

call_theta(S, K, T, r, sigma) ==
    LET a == d1(S, K, T, r, sigma)
        b == d2(S, K, T, r, sigma)
    IN  IF ~IsNum(a) THEN a
        ELSE IF T < 0 THEN Raise("ValueError")
        ELSE IF sqrt(T) = 0 THEN NonFinite
        ELSE IF ~IsNum(b) THEN b
        ELSE Num(((0 - ((FMul(S, norm_pdf(a.v)) * sigma * Q) \div (2 * sqrt(T))))
                  - (FMul(r, Discounted(K, T, r)) * norm_cdf(b.v))) \div 100)

call_rho(S, K, T, r, sigma) ==
    LET b == d2(S, K, T, r, sigma)
    IN  IF ~IsNum(b) THEN b
        ELSE Num((FMul(FMul(K, T), exp(0 - FMul(r, T))) * norm_cdf(b.v)) \div 100)

put_delta(S, K, T, r, sigma) ==
    LET a == d1(S, K, T, r, sigma)
    IN  IF ~IsNum(a) THEN a ELSE Num(0 - norm_cdf(0 - a.v))

\* put_gamma with the sign of put_delta
put_gamma_negated(S, K, T, r, sigma) ==
    LET a == d1(S, K, T, r, sigma)
        den == MulDiv(S, sigma * sqrt(T), Q)
    IN  IF ~IsNum(a) THEN a
        ELSE IF T < 0 THEN Raise("ValueError")
        ELSE IF den = 0 THEN NonFinite
        ELSE Num(0 - Quot(norm_pdf(a.v), den))

put_gamma(S, K, T, r, sigma) ==
    LET a == d1(S, K, T, r, sigma)
        den == MulDiv(S, sigma * sqrt(T), Q)
    IN  IF ~IsNum(a) THEN a
        ELSE IF T < 0 THEN Raise("ValueError")
        ELSE IF den = 0 THEN NonFinite
        ELSE Num(Quot(norm_pdf(a.v), den))

put_vega(S, K, T, r, sigma) ==
    LET a == d1(S, K, T, r, sigma)
    IN  IF ~IsNum(a) THEN a
        ELSE IF T < 0 THEN Raise("ValueError")
        ELSE Num(FMul(S * norm_pdf(a.v), sqrt(T)) \div 100)

put_theta(S, K, T, r, sigma) ==
    LET a == d1(S, K, T, r, sigma)
        b == d2(S, K, T, r, sigma)
    IN  IF ~IsNum(a) THEN a
        ELSE IF T < 0 THEN Raise("ValueError")
        ELSE IF sqrt(T) = 0 THEN NonFinite
        ELSE IF ~IsNum(b) THEN b
        ELSE Num(((0 - ((FMul(S, norm_pdf(a.v)) * sigma * Q) \div (2 * sqrt(T))))
                  + (FMul(r, Discounted(K, T, r)) * norm_cdf(0 - b.v))) \div 100)

put_rho(S, K, T, r, sigma) ==
    LET b == d2(S, K, T, r, sigma)
    IN  IF ~IsNum(b) THEN b
        ELSE Num((0 - (FMul(FMul(K, T), exp(0 - FMul(r, T))) * norm_cdf(0 - b.v))) \div 100)

\* the twelve functions, in the order of the price_and_greeks table
Functions ==
    {"call_price", "call_delta", "call_gamma", "call_vega", "call_rho", "call_theta",
     "put_price", "put_delta", "put_gamma", "put_vega", "put_rho", "put_theta"}

Apply(f, S, K, T, r, sigma) ==
    CASE f = "call_price" -> call_price(S, K, T, r, sigma)
      [] f = "call_delta" -> call_delta(S, K, T, r, sigma)
      [] f = "call_gamma" -> call_gamma(S, K, T, r, sigma)
      [] f = "call_vega"  -> call_vega(S, K, T, r, sigma)
      [] f = "call_rho"   -> call_rho(S, K, T, r, sigma)
      [] f = "call_theta" -> call_theta(S, K, T, r, sigma)
      [] f = "put_price"  -> put_price(S, K, T, r, sigma)
      [] f = "put_delta"  -> put_delta(S, K, T, r, sigma)
      [] f = "put_gamma"  -> put_gamma(S, K, T, r, sigma)
      [] f = "put_vega"   -> put_vega(S, K, T, r, sigma)
      [] f = "put_rho"    -> put_rho(S, K, T, r, sigma)
      [] f = "put_theta"  -> put_theta(S, K, T, r, sigma)

\* ----------------------------------------------------- implied_volatility
\* sigma = 0.001; while sigma < 1; ... < 0.001; sigma += 0.001
SigmaStart == 1
SigmaLimit == 1000
SigmaStep == 1
\* the tolerance 0.001 at the scale of a price
Tolerance == 1000

CallNotFound == "It could not find the right volatility of the call option."
PutNotFound == "It could not find the right volatility of the put option."
Str(m) == [kind |-> "str", v |-> 0, msg |-> m]
None == [kind |-> "none", v |-> 0]

\* Option_Price_implied of the branch the global option selects, at sigma sg
Option_Price_implied(opt, S, K, T, r, sg) ==
    IF opt = "C"
    THEN LET a == d1(S, K, T, r, sg)
             b == d2(S, K, T, r, sg)
         IN  Bind2(a, b, Num(S * norm_cdf(a.v) - Discounted(K, T, r) * norm_cdf(b.v)))
    ELSE LET c == call_price(S, K, T, r, sg)
         IN  IF ~IsNum(c) THEN c
             ELSE Num((Discounted(K, T, r) * Q - S * Q) + c.v)

\* the stopping test without its tolerance
StopTest_exact(price, implied) == price - implied < 0

\* the stopping test on the absolute difference
StopTest_abs(price, implied) == Abs(price - implied) < Tolerance

\* if Option_Price-(Option_Price_implied) < 0.001
StopTest(price, implied) == price - implied < Tolerance

\* ------------------------------------------------ the volatility input loop
\* the characters the user types, and the answers made of them
Alphabet == {"0", "1", "5", "-", ".", "n", "a"}
Digits == {"0", "1", "5"}
Entries == UNION {[1..n -> Alphabet] : n \in 0..MaxLen}

DigitVal(c) == CASE c = "0" -> 0 [] c = "1" -> 1 [] c = "5" -> 5

\* the integer a string of digits denotes
RECURSIVE IntVal(_)
IntVal(ds) ==
    IF ds = <<>> THEN 0
    ELSE 10 * IntVal(SubSeq(ds, 1, Len(ds) - 1)) + DigitVal(ds[Len(ds)])

\* the fraction a string of digits after the point denotes, at scale Q
RECURSIVE FracVal(_, _)
FracVal(ds, w) ==
    IF ds = <<>> \/ w = 0 THEN 0
    ELSE DigitVal(ds[1]) * w + FracVal(Tail(ds), w \div 10)

NaN == [kind |-> "nan", v |-> 0]

\* float(str) of an unsigned string: nan, or digits with at most one point
\* and at least one digit; anything else raises ValueError
Unsigned(cs) ==
    LET points == {i \in 1..Len(cs) : cs[i] = "."}
        dot == IF points = {} THEN Len(cs) + 1 ELSE CHOOSE i \in points : TRUE
        whole == SubSeq(cs, 1, dot - 1)
        frac == SubSeq(cs, dot + 1, Len(cs))
    IN  IF cs = <<"n", "a", "n">> THEN NaN
        ELSE IF \/ Cardinality(points) > 1
                \/ \E i \in 1..Len(cs) : cs[i] \notin Digits \cup {"."}
                \/ Len(whole) + Len(frac) = 0
             THEN Raise("ValueError")
             ELSE Num(IntVal(whole) * Q + FracVal(frac, Q \div 10))

\* float(sigma) for the string the user typed, in percent at scale Q
float(cs) ==
    IF cs # <<>> /\ cs[1] = "-"
    THEN LET u == Unsigned(Tail(cs))
         IN  IF IsNum(u) THEN Num(0 - u.v) ELSE u
    ELSE Unsigned(cs)

\* if sigma > 100 or sigma < 0: every comparison with nan is False
OutOfRange(x) == IsNum(x) /\ (x.v > 100 * Q \/ x.v < 0)

VARIABLES
    sigma_cell,      \* the notebook's global sigma, set by the input cell
    ipc,             \* the input cell: "start", "loop", "exited" or "divided"
    S, K, T, r,      \* the arguments shared by every call
    option,          \* the module-level variable read by implied_volatility
    Option_Price,    \* the observed price passed to implied_volatility
    sigma,           \* the local variable sigma of implied_volatility
    pc,              \* "idle", "loop" (inside implied_volatility) or "done"
    result,          \* what implied_volatility returned or raised
    evals,           \* model prices computed by the running call
    table,           \* results of the twelve pricing and Greek functions
    vol,             \* the sigma the table was computed with
    sigma0,          \* the sigma that generated Option_Price (0: none)
    prev             \* the result of the previous call with these arguments

vars == <<S, K, T, r, option, Option_Price, sigma, pc, result, evals, table, vol,
          sigma0, prev, sigma_cell, ipc>>

NoTable == [f \in Functions |-> None]

Init ==
    /\ S \in SVals
    /\ K \in KVals
    /\ T \in TVals
    /\ r \in RVals
    /\ option = "unset"
    /\ Option_Price = 0
    /\ sigma = 0
    /\ pc = "idle"
    /\ result = None
    /\ evals = 0
    /\ table = NoTable
    /\ vol = 0
    /\ sigma0 = 0
    /\ prev = None
    /\ sigma_cell = None
    /\ ipc = "start"

\* the price_and_greeks cell: every function applied to (S,K,T,r,sigma)
PricingCell(sg) ==
    /\ pc = "idle"
    /\ table' = [f \in Functions |-> Apply(f, S, K, T, r, sg)]
    /\ vol' = sg
    /\ UNCHANGED <<sigma_cell, ipc, S, K, T, r, option, Option_Price, sigma, pc, result, evals,
                   sigma0, prev>>

\* entry of implied_volatility(p, S, K, T, r) with the global option set to o
Enter(o, p, s0) ==
    /\ pc = "idle"
    /\ option' = o
    /\ Option_Price' = p
    /\ sigma' = SigmaStart
    /\ evals' = 0
    /\ result' = None
    /\ pc' = "loop"
    /\ sigma0' = s0
    /\ table' = NoTable
    /\ vol' = 0
    /\ prev' = IF p = Option_Price THEN prev ELSE None
    /\ UNCHANGED <<sigma_cell, ipc, S, K, T, r>>

\* the demo cell: the user answers P or C and an option price
OptionCell(o, p) == Enter(o, p, 0)

\* strings other than 'P' and 'C' that the global option may hold when
\* implied_volatility is called from outside the demo cell
OtherOptions == {"c"}

\* implied_volatility(p, S, K, T, r) called directly: the function does not
\* look at option before the test option == 'C'
DirectCall(o, p) == Enter(o, p, 0)

\* the branch of implied_volatility that runs: if option == 'C' ... else ...
Branch == IF option = "C" THEN "call" ELSE "put"

\* the observed price is the model price of the option at sigma s0
RoundTripCell(o, s0) ==
    LET p == IF o = "C" THEN call_price(S, K, T, r, s0) ELSE put_price(S, K, T, r, s0)
    IN  /\ pc = "idle"
        /\ IsNum(p)
        /\ Enter(o, p.v, s0)

\* Option_Price_implied = ... at the current sigma
Implied == Option_Price_implied(option, S, K, T, r, sigma)

\* computing Option_Price_implied raises: the call ends with the exception
IVRaise(m) ==
    /\ ~IsNum(m)
    /\ result' = m
    /\ evals' = evals + 1
    /\ pc' = "done"
    /\ UNCHANGED <<sigma_cell, ipc, S, K, T, r, option, Option_Price, sigma, table, vol, sigma0, prev>>

\* the stopping test holds: return sigma
IVReturn(m) ==
    /\ IsNum(m)
    /\ StopTest(Option_Price, m.v)
    /\ result' = Num(sigma)
    /\ evals' = evals + 1
    /\ pc' = "done"
    /\ UNCHANGED <<sigma_cell, ipc, S, K, T, r, option, Option_Price, sigma, table, vol, sigma0, prev>>

\* the failed test advancing sigma by two steps
IVNext_skip(m) ==
    /\ IsNum(m)
    /\ ~StopTest(Option_Price, m.v)
    /\ sigma' = sigma + 2 * SigmaStep
    /\ evals' = evals + 1
    /\ UNCHANGED <<sigma_cell, ipc, S, K, T, r, option, Option_Price, pc, result, table, vol, sigma0, prev>>

\* the failed test leaving sigma where it is
IVNext_stall(m) ==
    /\ IsNum(m)
    /\ ~StopTest(Option_Price, m.v)
    /\ sigma' = sigma
    /\ evals' = evals + 1
    /\ UNCHANGED <<sigma_cell, ipc, S, K, T, r, option, Option_Price, pc, result, table, vol, sigma0, prev>>

\* the stopping test fails: sigma += 0.001
IVNext(m) ==
    /\ IsNum(m)
    /\ ~StopTest(Option_Price, m.v)
    /\ sigma' = sigma + SigmaStep
    /\ evals' = evals + 1
    /\ UNCHANGED <<sigma_cell, ipc, S, K, T, r, option, Option_Price, pc, result, table, vol, sigma0, prev>>

\* one pass through the body of the while loop of the selected branch
IVIterate ==
    /\ pc = "loop"
    /\ sigma < SigmaLimit
    /\ LET m == Implied
       IN  \/ IVRaise(m)
           \/ IVReturn(m)
           \/ IVNext(m)

\* the ended loop falling through to the bare return
IVNotFound_bare ==
    /\ pc = "loop"
    /\ ~(sigma < SigmaLimit)
    /\ result' = None
    /\ pc' = "done"
    /\ UNCHANGED <<sigma_cell, ipc, S, K, T, r, option, Option_Price, sigma, evals, table, vol, sigma0, prev>>

\* the while loop ends: return the message of the branch
IVNotFound ==
    /\ pc = "loop"
    /\ ~(sigma < SigmaLimit)
    /\ result' = IF option = "C" THEN Str(CallNotFound) ELSE Str(PutNotFound)
    /\ pc' = "done"
    /\ UNCHANGED <<sigma_cell, ipc, S, K, T, r, option, Option_Price, sigma, evals, table, vol, sigma0, prev>>

\* the caller has the result; the next call may follow
Finish ==
    /\ pc = "done"
    /\ pc' = "idle"
    /\ prev' = result
    /\ UNCHANGED <<sigma_cell, ipc, S, K, T, r, option, Option_Price, sigma, result, evals, table, vol,
                   sigma0>>

\* the sigmas on the scan grid among SigmaVals
GridVals == {s \in SigmaVals : s >= SigmaStart /\ s < SigmaLimit}

Next ==
    \/ \E sg \in SigmaVals : PricingCell(sg)
    \/ \E o \in {"C", "P"}, p \in PriceVals : OptionCell(o, p)
    \/ \E o \in {"C", "P"}, s0 \in GridVals : RoundTripCell(o, s0)
    \/ \E o \in OtherOptions, p \in PriceVals : DirectCall(o, p)
    \/ IVIterate
    \/ IVNotFound
    \/ Finish

Spec == Init /\ [][Next]_vars

\* the loop body is the next statement of the running call
InLoopBody == pc = "loop" /\ sigma < SigmaLimit

\* The interpreter runs a started call to its end: the loop body and the
\* statement after the loop are taken whenever they are the next statement.
\* IVIterate is enabled exactly when InLoopBody holds (one of IVRaise,
\* IVReturn and IVNext fits every model price, and each adds an evaluation),
\* so the last conjunct is WF_vars(IVIterate) with ENABLED written out.
FairSpec ==
    /\ Spec
    /\ WF_vars(IVNotFound)
    /\ ([]<>(~InLoopBody) \/ []<><<IVIterate>>_vars)

\* ------------------------------------------------------ the input cell
Rest == <<S, K, T, r, option, Option_Price, sigma, pc, result, evals, table, vol,
          sigma0, prev>>

\* sigma = input("What is the volatility in percentage(%)? ")
VolatilityPrompt(e) ==
    /\ ipc = "start"
    /\ sigma_cell' = Str(e)
    /\ ipc' = "loop"
    /\ UNCHANGED Rest

\* float(sigma) raises: except: print, sigma = input(...), next iteration
VolatilityNotANumber(e) ==
    /\ ipc = "loop"
    /\ ~IsNum(float(sigma_cell.msg)) /\ float(sigma_cell.msg) # NaN
    /\ sigma_cell' = Str(e)
    /\ UNCHANGED <<ipc, Rest>>

\* sigma > 100 or sigma < 0: print, sigma = input(...), then break
VolatilityOutOfRange(e) ==
    /\ ipc = "loop"
    /\ OutOfRange(float(sigma_cell.msg))
    /\ sigma_cell' = Str(e)
    /\ ipc' = "exited"
    /\ UNCHANGED Rest

\* sigma = float(sigma), the range test is False: break
VolatilityAccept ==
    /\ ipc = "loop"
    /\ float(sigma_cell.msg) = NaN \/ IsNum(float(sigma_cell.msg))
    /\ ~OutOfRange(float(sigma_cell.msg))
    /\ sigma_cell' = float(sigma_cell.msg)
    /\ ipc' = "exited"
    /\ UNCHANGED Rest

\* sigma = sigma/100 in the pricing cell: a str operand raises TypeError
Percent ==
    /\ ipc = "exited"
    /\ sigma_cell' = CASE sigma_cell.kind = "str" -> Raise("TypeError")
                        [] sigma_cell.kind = "nan" -> NaN
                        [] OTHER -> Num(sigma_cell.v \div 100)
    /\ ipc' = "divided"
    /\ UNCHANGED Rest

InputNext ==
    \/ \E e \in Entries : VolatilityPrompt(e)
    \/ \E e \in Entries : VolatilityNotANumber(e)
    \/ \E e \in Entries : VolatilityOutOfRange(e)
    \/ VolatilityAccept
    \/ Percent

InputSpec == Init /\ [][InputNext]_vars

\* ===================================================================
\* Properties
\* ===================================================================
Priced == pc = "idle" /\ table["call_price"].kind # "none"
Raised(x) == x.kind \in {"ValueError", "ZeroDivisionError"}
Done == pc = "done"
\* the model price the running call compares against, at candidate s
ModelPrice(s) == Option_Price_implied(option, S, K, T, r, s)
Candidates == {s \in SigmaStart..(SigmaLimit - 1) : (s - SigmaStart) % SigmaStep = 0}
\* 1e-6 at the scale of a price
Millionth == (Q * Q) \div 1000000

\* the Black-Scholes formulas with the strike K in d1/d2's strike parameter
\* and the time T in their time parameter
FormulaCall(s, k, t, rr, sg) ==
    LET a == d1(s, t, k, rr, sg)
        b == d2(s, t, k, rr, sg)
    IN  Bind2(a, b, Num(s * norm_cdf(a.v) - Discounted(k, t, rr) * norm_cdf(b.v)))
FormulaPut(s, k, t, rr, sg) ==
    LET a == d1(s, t, k, rr, sg)
        b == d2(s, t, k, rr, sg)
    IN  Bind2(b, a, Num(Discounted(k, t, rr) * norm_cdf(0 - b.v) - s * norm_cdf(0 - a.v)))

\* C1: for T > 0 and sigma > 0, call_price and put_price return the
\* Black-Scholes values with d1 and d2 evaluated with K as the strike and T
\* as the time to maturity.
C1_PricesFollowFormula ==
    (Priced /\ T > 0 /\ vol > 0) =>
        /\ table["call_price"] = FormulaCall(S, K, T, r, vol)
        /\ table["put_price"] = FormulaPut(S, K, T, r, vol)

\* C2: put-call parity: for valid parameters with T > 0 and sigma > 0 both
\* prices are numbers and call - put is S - K*exp(-r*T) within 1e-6.
C2_PutCallParity ==
    (Priced /\ S > 0 /\ K > 0 /\ T > 0 /\ vol > 0) =>
        /\ IsNum(table["call_price"])
        /\ IsNum(table["put_price"])
        /\ Abs((table["call_price"].v - table["put_price"].v)
               - (S * Q - Discounted(K, T, r) * Q)) <= Millionth
C2_Witness ==
    /\ Priced /\ S > 0 /\ K > 0 /\ T > 0 /\ vol > 0
    /\ IsNum(table["call_price"])
    /\ table["put_price"].v > 0
    /\ table["call_price"].v # table["put_price"].v

\* C3: call_gamma and put_gamma return the same result, and so do call_vega
\* and put_vega, for all inputs.
C3_GammaVegaEqual ==
    Priced =>
        /\ table["call_gamma"] = table["put_gamma"]
        /\ table["call_vega"] = table["put_vega"]
C3_Witness ==
    /\ Priced
    /\ IsNum(table["put_gamma"]) /\ table["put_gamma"].v > 0
    /\ IsNum(table["put_vega"]) /\ table["put_vega"].v > 0

\* C4: every pricing or Greek function raises a domain error, and returns
\* no number, whenever T <= 0 or sigma <= 0.
C4_DomainErrorOnBadInput ==
    (Priced /\ (T <= 0 \/ vol <= 0)) => \A f \in Functions : Raised(table[f])

\* C5: implied_volatility raises a domain error for every query with T <= 0
\* and never returns a sigma or the not-found message.
C5_ImpliedRaisesOnBadTime ==
    (Done /\ T <= 0) => Raised(result)

\* C6: a returned sigma is a candidate of the scan at which
\* Option_Price - modelPrice(sigma) < 0.001 holds, and the test failed at
\* every earlier candidate.
C6_FirstCandidate ==
    (Done /\ IsNum(result)) =>
        /\ result.v \in Candidates
        /\ IsNum(ModelPrice(result.v))
        /\ Option_Price - ModelPrice(result.v).v < Tolerance
        /\ \A s \in Candidates :
              s < result.v =>
                  /\ IsNum(ModelPrice(s))
                  /\ ~(Option_Price - ModelPrice(s).v < Tolerance)
C6_Witness ==
    /\ Done /\ IsNum(result)
    /\ result.v > SigmaStart + SigmaStep
    /\ sigma0 = 0

\* C7: the call returns (does not raise) the not-found message, a value that
\* is no number, exactly when the stopping test fails at every candidate; in
\* particular for a call option observed above S.
C7_NotFoundIffNoCandidate ==
    Done =>
        /\ (result.kind = "str") <=>
              (\A s \in Candidates :
                  /\ IsNum(ModelPrice(s))
                  /\ ~(Option_Price - ModelPrice(s).v < Tolerance))
        /\ (result.kind = "str") =>
              result.msg = (IF option = "C" THEN CallNotFound ELSE PutNotFound)
        /\ (option = "C" /\ S > 0 /\ K > 0 /\ T > 0
               /\ Option_Price >= S * Q + Tolerance) => result.kind = "str"
C7_Witness ==
    /\ Done /\ result.kind = "str"
    /\ option = "C" /\ Option_Price > S * Q /\ S > 0
    /\ evals = SigmaLimit - SigmaStart

\* C8 as stated: the price of an option at sigma0 leads implied_volatility
\* back to a sigma within 0.001 of sigma0.
C8_RoundTripWithinStep ==
    (Done /\ sigma0 > 0 /\ S > 0 /\ K > 0 /\ T > 0) =>
        /\ IsNum(result)
        /\ Abs(result.v - sigma0) <= SigmaStep

\* C8, amended: the price of an option at a candidate sigma0 leads
\* implied_volatility to the first candidate sigma <= sigma0 with
\* Option_Price - modelPrice(sigma) < 0.001.
C8_RoundTripBelow ==
    (Done /\ sigma0 > 0) =>
        /\ IsNum(result)
        /\ result.v <= sigma0
        /\ result.v >= SigmaStart
        /\ Option_Price - ModelPrice(result.v).v < Tolerance
C8_Witness ==
    /\ Done /\ sigma0 > 0 /\ S > 0 /\ K > 0 /\ T > 0
    /\ IsNum(result)
    /\ result.v < sigma0 - SigmaStep

\* C9: two calls of implied_volatility with identical arguments
\* (Option_Price, S, K, T, r) return the same result.
C9_SameArgumentsSameResult ==
    (Done /\ prev.kind # "none") => result = prev

\* C10: whenever Option_Price - modelPrice(0.001) < 0.001 the call returns
\* sigma = 0.001 after one evaluation, however far the model price is above
\* the observed price.
C10_OneSidedFirstCandidate ==
    (Done /\ IsNum(ModelPrice(SigmaStart))
          /\ Option_Price - ModelPrice(SigmaStart).v < Tolerance) =>
        /\ result = Num(SigmaStart)
        /\ evals = 1
C10_Witness ==
    /\ Done
    /\ result = Num(SigmaStart)
    /\ evals = 1
    /\ IsNum(ModelPrice(SigmaStart))
    /\ ModelPrice(SigmaStart).v - Option_Price >= 10 * Tolerance

\* the most model prices one call computes: one per candidate, and one more
MaxEvaluations == ((SigmaLimit - SigmaStart) \div SigmaStep) + 1

\* C11: the scan terminates: an iteration that does not return adds 0.001 to
\* sigma and one evaluation, the loop is left once sigma is not below 1.0,
\* a started call ends, where the pricing formula is defined with a sigma or
\* the not-found message, and no call computes more than 1000 model prices.
C11_ScanTerminates ==
    /\ [][(pc = "loop" /\ pc' = "loop") =>
              /\ sigma < SigmaLimit
              /\ sigma' = sigma + SigmaStep
              /\ evals' = evals + 1]_vars
    /\ [](pc = "loop" => sigma <= SigmaLimit)
    /\ []((pc = "loop" /\ ~(sigma < SigmaLimit)) => ~ENABLED IVIterate)
    /\ []((pc = "loop" /\ ~(sigma < SigmaLimit)) => ENABLED IVNotFound)
    /\ [](evals <= MaxEvaluations)
    /\ []((Done /\ IsNum(ModelPrice(SigmaStart))) => result.kind \in {"num", "str"})
    /\ (pc = "loop") ~> Done
C11_Witness ==
    /\ Done /\ IsNum(result)
    /\ evals > SigmaLimit \div 2
    /\ result.v = SigmaStart + (evals - 1) * SigmaStep

\* the price the pricing engine gives the running call's candidate sigma
EngineCall == call_price(S, K, T, r, sigma)
EnginePut == put_price(S, K, T, r, sigma)
InCall == pc \in {"loop", "done"} /\ sigma < SigmaLimit

\* in the call branch Option_Price_implied is call_price(S,K,T,r,sigma); in
\* the put branch it is put_price(S,K,T,r,sigma) within 1e-6
BranchPriceIsEnginePrice ==
    InCall =>
        /\ (Branch = "call") => Implied = EngineCall
        /\ (Branch = "put") =>
              /\ Implied.kind = EnginePut.kind
              /\ Abs(Implied.v - EnginePut.v) <= Millionth
BranchPrice_Witness ==
    /\ InCall /\ Branch = "put" /\ option = "P"
    /\ IsNum(Implied) /\ Implied.v > 0
    /\ sigma > SigmaLimit \div 2

\* C12: the model price of each branch of implied_volatility is the pricing
\* engine's price of that option type at every candidate sigma, and the put
\* branch runs exactly when the requested option type is Put.
C12_BranchPricesRequestedOption ==
    /\ BranchPriceIsEnginePrice
    /\ InCall => ((Branch = "put") <=> (option = "P"))

\* C13: when the volatility input loop has broken, sigma is a float with
\* 0 <= sigma <= 100, whatever the user entered before.
C13_VolatilityInRange ==
    (ipc = "exited") =>
        /\ IsNum(sigma_cell)
        /\ 0 <= sigma_cell.v /\ sigma_cell.v <= 100 * Q

====
